---------------------------- MODULE Spec2Model ----------------------------
(***************************************************************************)
(* A model of the IronVein client session core (src/src/lib.rs): the       *)
(* IronVeinClient object, the WebSocket channels it creates together with  *)
(* the closures registered on them, the player table, the pending-chat     *)
(* index and the parts of the page the client writes to.                   *)
(*                                                                         *)
(* Environment assumed throughout: window.gameClient is the one            *)
(* IronVeinClient of the page (the handlers reach the player table only    *)
(* through it), and the page holds the elements "chatMessages",            *)
(* "userDisplay" and "positionDisplay".                                    *)
(***************************************************************************)
EXTENDS Integers, Sequences, FiniteSets, TLC

VARIABLES
    username,          \* IronVeinClient.username
    room,              \* IronVeinClient.room
    websocket,         \* IronVeinClient.websocket: 0 is None, n is Some(channel n)
    chans,             \* every WebSocket created so far, with what its closures captured
    players,           \* IronVeinClient.players: HashMap<String, Player>
    my_player,         \* IronVeinClient.my_player: Option<Player>
    pending_messages,  \* IronVeinClient.pending_messages: key -> placeholder element
    chatMessages,      \* children of the "chatMessages" element, oldest first
    positionDisplay,   \* text shown by the "positionDisplay" element
    nextElem,          \* number of placeholder elements created so far
    calls,             \* page functions invoked by the most recent operation
    out,               \* frames handed to a channel by the most recent operation
    last,              \* the most recent operation, its inputs and its result
    hb                 \* the page's latency monitor, and the probe frames sent
                       \* and not yet echoed

vars == <<username, room, websocket, chans, players, my_player, pending_messages,
          chatMessages, positionDisplay, nextElem, calls, out, last, hb>>

-----------------------------------------------------------------------------
(* Bounds and input samples *)

MaxChans == 2          \* WebSocket objects created in one run of the connection life cycle
MaxInflight == 2       \* probe frames on the wire at one time
MaxSnap == 2           \* players in one game_state snapshot
MaxLines == 2          \* children of the chat panel in one run

Users == {"alice", "bob"}
Rooms == {"r1"}
Positions == {<<0, 0>>, <<1, 2>>}      \* (x, y) samples, inside the grid
StatVals == {<<100, 0>>, <<40, 7>>}    \* (health, resources) samples
SnapshotVals == {<<0, 0, 100, 0>>, <<1, 2, 40, 7>>}   \* (x, y, health, resources) in snapshots
ErrorTexts == {<<"a">>}                \* texts of error frames

\* The text of the "userDisplay" element, written by the page.
UserDisplayText == "alice"

(* Program constants *)
DefaultHealth == 100
DefaultResources == 0
ChatLimit == 100

-----------------------------------------------------------------------------
(* Option<T> *)
None == <<>>
Some(v) == <<v>>
IsSome(o) == Len(o) = 1
Unwrap(o) == o[1]

(* struct Player *)
Player(u, x, y, r, health, resources) ==
    [username |-> u, x |-> x, y |-> y, room |-> r,
     health |-> health, resources |-> resources]

(* HashMap<String, V> as a function on the set of its keys *)
EmptyMap == [k \in {} |-> None]
HashMapInsert(m, k, v) == [j \in (DOMAIN m) \cup {k} |-> IF j = k THEN v ELSE m[j]]
HashMapRemove(m, k) == [j \in (DOMAIN m) \ {k} |-> m[j]]
ContainsKey(m, k) == k \in DOMAIN m

(* enum WebSocketMessage: the outbound frames *)
\* mutant: the two fields are swapped
JoinFrameSwapped(u, r) == [type |-> "join", username |-> r, room |-> u]

JoinFrame(u, r) == [type |-> "join", username |-> u, room |-> r]
MoveFrame(u, x, y, r) == [type |-> "move", username |-> u, x |-> x, y |-> y, room |-> r]
MessageFrame(u, m, r) == [type |-> "message", username |-> u, message |-> m, room |-> r]

(* enum WebSocketMessage: the inbound frames *)
PlayerJoinedFrame(u, x, y) == [type |-> "player_joined", username |-> u, x |-> x, y |-> y]
PlayerUpdateFrame(u, x, y, health, resources) ==
    [type |-> "player_update", username |-> u, x |-> x, y |-> y,
     health |-> health, resources |-> resources]
PlayerLeftFrame(u) == [type |-> "player_left", username |-> u]
GameStateFrame(ps) == [type |-> "game_state", players |-> ps]
ChatMessageFrame(u, m) ==
    [type |-> "chat_message", id |-> 0, username |-> u, message |-> m,
     timestamp |-> 0, room |-> "r1"]
ErrorFrame(m) == [type |-> "error", message |-> m]

(* serde_json::from_str::<WebSocketMessage>: a frame decodes when it is an *)
(* object whose "type" is one of the nine tags and which has every field   *)
(* of that variant, numbers where the variant has u32 (fields it does not  *)
(* name are ignored).  Anything else, text that is not JSON or data that   *)
(* is not text included, is modelled as a record that fails one of these.  *)
Tags == {"join", "message", "chat_message", "player_joined", "player_left",
         "error", "move", "player_update", "game_state"}

PlayerFields == {"username", "x", "y", "room", "health", "resources"}

RequiredFields(tag) ==
    CASE tag = "join" -> {"username", "room"}
      [] tag = "message" -> {"username", "message", "room"}
      [] tag = "chat_message" -> {"id", "username", "message", "timestamp", "room"}
      [] tag = "player_joined" -> {"username", "x", "y"}
      [] tag = "player_left" -> {"username"}
      [] tag = "error" -> {"message"}
      [] tag = "move" -> {"username", "x", "y", "room"}
      [] tag = "player_update" -> {"username", "x", "y", "health", "resources"}
      [] tag = "game_state" -> {"players"}

U32Fields == {"x", "y", "health", "resources"}

\* the values the samples give to u32 fields stay below 2^32
IsU32(v) == v >= 0

HasFields(obj, fields) ==
    /\ fields \subseteq DOMAIN obj
    /\ \A f \in fields \cap U32Fields : IsU32(obj[f])

from_str(raw) ==
    /\ "type" \in DOMAIN raw
    /\ raw.type \in Tags
    /\ HasFields(raw, RequiredFields(raw.type))
    /\ raw.type = "game_state" =>
           \A i \in DOMAIN raw.players : HasFields(raw.players[i], PlayerFields)

-----------------------------------------------------------------------------
(* Chat texts are sequences of characters.  str::to_lowercase and          *)
(* str::trim as the pending index uses them.                               *)

ToLowerChar(c) == IF c = "P" THEN "p" ELSE IF c = "H" THEN "h" ELSE c
IsWhitespace(c) == c = " "

ToLowercase(s) == [i \in 1..Len(s) |-> ToLowerChar(s[i])]

RECURSIVE TrimStart(_)
TrimStart(s) ==
    IF s # <<>> /\ IsWhitespace(Head(s)) THEN TrimStart(Tail(s)) ELSE s

RECURSIVE TrimEnd(_)
TrimEnd(s) ==
    IF s # <<>> /\ IsWhitespace(s[Len(s)]) THEN TrimEnd(SubSeq(s, 1, Len(s) - 1)) ELSE s

Trim(s) == TrimEnd(TrimStart(s))

\* mutant: the key is trimmed but keeps its case
MessageKeyKeepsCase(message) == Trim(message)

\* message.to_lowercase().trim().to_string()
MessageKey(message) == Trim(ToLowercase(message))

\* the sentinel bodies of a latency probe
PingText == <<"p">>
LegacyPingText == <<"_", "_", "p", "i", "n", "g", "_", "_">>
IsPingText(message) == message = LegacyPingText \/ message = PingText

-----------------------------------------------------------------------------
(* The player table: update_player and update_all_players.  A world is the *)
(* pair of fields the two methods write.                                   *)

World(ps, mine) == [players |-> ps, my_player |-> mine]

\* mutant: the record is built with the session's username
UpdatePlayerNamedSelf(w, selfName, selfRoom, u, x, y, health, resources) ==
    LET player == Player(selfName, x, y, selfRoom, health, resources) IN
    World(HashMapInsert(w.players, u, player),
          IF u = selfName THEN Some(player) ELSE w.my_player)

UpdatePlayer(w, selfName, selfRoom, u, x, y, health, resources) ==
    LET player == Player(u, x, y, selfRoom, health, resources) IN
    World(HashMapInsert(w.players, u, player),
          IF u = selfName THEN Some(player) ELSE w.my_player)

RECURSIVE InsertAll(_, _, _)
InsertAll(w, selfName, ps) ==
    IF ps = <<>> THEN w
    ELSE LET player == Head(ps) IN
         InsertAll(World(HashMapInsert(w.players, player.username, player),
                         IF player.username = selfName THEN Some(player)
                                                       ELSE w.my_player),
                   selfName, Tail(ps))

\* mutant: the table is not cleared first
UpdateAllPlayersNoClear(w, selfName, ps) == InsertAll(w, selfName, ps)

\* mutant: the self reference is read from the table before it is refilled
UpdateAllPlayersStaleSelf(w, selfName, ps) ==
    LET filled == InsertAll(World(EmptyMap, w.my_player), selfName, ps)
    IN World(filled.players,
             IF ContainsKey(w.players, selfName) THEN Some(w.players[selfName])
                                                 ELSE filled.my_player)

UpdateAllPlayers(w, selfName, ps) ==
    InsertAll(World(EmptyMap, w.my_player), selfName, ps)

-----------------------------------------------------------------------------
(* The channel *)

Channel(mode, u, r, ready) == [mode |-> mode, username |-> u, room |-> r, ready |-> ready]

\* mutant: any stored channel counts as connected
is_websocket_connected_any == websocket # 0

is_websocket_connected ==
    IF websocket # 0 THEN chans[websocket].ready = "OPEN" ELSE FALSE

\* WebSocket.send: throws while CONNECTING, transmits while OPEN, and
\* otherwise discards the data without an error.
SendOk(cs, ch) == cs[ch].ready # "CONNECTING"
Transmit(cs, ch, frame) ==
    IF cs[ch].ready = "OPEN" THEN <<[ch |-> ch, frame |-> frame]>> ELSE <<>>

SetReady(ch, ready) == [chans EXCEPT ![ch].ready = ready]

-----------------------------------------------------------------------------
(* The page *)

ChatLine(text) == [kind |-> "line", text |-> text]

RECURSIVE TrimToLimit(_)
TrimToLimit(children) ==
    IF Len(children) > ChatLimit THEN TrimToLimit(Tail(children)) ELSE children

\* append_chat_message
AppendChatMessage(children, text) == TrimToLimit(Append(children, ChatLine(text)))

\* a placeholder element created by add_pending_message
Placeholder(id, message) ==
    [kind |-> "pending", id |-> id, text |-> <<"SENDING", UserDisplayText, message>>]

\* pending_element.parent_node() is Some
IsChild(children, elem) == \E i \in DOMAIN children : children[i] = elem

\* parent.remove_child(&pending_element)
RemoveChild(children, elem) == SelectSeq(children, LAMBDA e : e # elem)

\* update_position_display
UpdatePositionDisplay(shown, u, x, y) ==
    IF UserDisplayText = u THEN Some(<<x, y>>) ELSE shown

-----------------------------------------------------------------------------
(* What the closures and the methods called through window.gameClient      *)
(* write: the table, the pending index and the page.  A handler is a       *)
(* function from one such record to the next.                              *)

Mem == [players |-> players, my_player |-> my_player,
        pending_messages |-> pending_messages, chatMessages |-> chatMessages,
        positionDisplay |-> positionDisplay, nextElem |-> nextElem, calls |-> <<>>]

SetMem(m) ==
    /\ players' = m.players
    /\ my_player' = m.my_player
    /\ pending_messages' = m.pending_messages
    /\ chatMessages' = m.chatMessages
    /\ positionDisplay' = m.positionDisplay
    /\ nextElem' = m.nextElem
    /\ calls' = m.calls

PageCall(m, name, arg) == [m EXCEPT !.calls = Append(@, <<name, arg>>)]

\* update_game_client_player: window.gameClient.update_player(...)
UpdateGameClientPlayer(m, u, x, y, health, resources) ==
    LET w == UpdatePlayer(World(m.players, m.my_player), username, room,
                          u, x, y, health, resources)
    IN [m EXCEPT !.players = w.players, !.my_player = w.my_player]

\* update_all_game_players: window.gameClient.update_all_players(json)
UpdateAllGamePlayers(m, ps) ==
    LET w == UpdateAllPlayers(World(m.players, m.my_player), username, ps)
    IN [m EXCEPT !.players = w.players, !.my_player = w.my_player]

\* update_player_list once for every player of a snapshot, in order
RECURSIVE UpdatePlayerListAll(_, _)
UpdatePlayerListAll(m, ps) ==
    IF ps = <<>> THEN m
    ELSE UpdatePlayerListAll(PageCall(m, "updatePlayerInList", Head(ps).username), Tail(ps))

\* handle_ping_response
HandlePingResponse(m) == PageCall(m, "onPingReceived", "")

\* mutant: the pending entry is dropped but its placeholder stays in the panel
HandleChatMessageKeepsPlaceholder(m, chat_msg) ==
    LET message_key == MessageKey(chat_msg.message)
        m1 == IF ContainsKey(m.pending_messages, message_key)
              THEN [m EXCEPT !.pending_messages = HashMapRemove(@, message_key)]
              ELSE m
    IN [m1 EXCEPT !.chatMessages =
            AppendChatMessage(@, <<"chat", chat_msg.username, chat_msg.message>>)]

\* handle_chat_message
HandleChatMessage(m, chat_msg) ==
    LET message_key == MessageKey(chat_msg.message)
        hit == ContainsKey(m.pending_messages, message_key)
        pending_element == m.pending_messages[message_key]
        m1 == IF hit
              THEN IF IsChild(m.chatMessages, pending_element)
                   THEN [PageCall(m, "removeChild", pending_element)
                            EXCEPT !.pending_messages = HashMapRemove(@, message_key),
                                   !.chatMessages = RemoveChild(@, pending_element)]
                   ELSE [m EXCEPT !.pending_messages = HashMapRemove(@, message_key)]
              ELSE m
    IN [m1 EXCEPT !.chatMessages =
            AppendChatMessage(@, <<"chat", chat_msg.username, chat_msg.message>>)]

\* mutant: an entry already pending under the key is kept
AddPendingMessageKeepsFirst(m, message) ==
    LET message_div == Placeholder(m.nextElem + 1, message)
    IN [m EXCEPT !.nextElem = @ + 1,
                 !.chatMessages = Append(@, message_div),
                 !.pending_messages =
                     IF ContainsKey(@, MessageKey(message)) THEN @
                     ELSE HashMapInsert(@, MessageKey(message), message_div)]

\* add_pending_message
AddPendingMessage(m, message) ==
    LET message_div == Placeholder(m.nextElem + 1, message)
    IN [m EXCEPT !.nextElem = @ + 1,
                 !.chatMessages = Append(@, message_div),
                 !.pending_messages = HashMapInsert(@, MessageKey(message), message_div)]

\* mutant: the probe branch does not return
ArmChatMessageFallsThrough(m, ch, chat_msg) ==
    IF IsPingText(chat_msg.message) /\ chat_msg.username = chans[ch].username
    THEN HandleChatMessage(HandlePingResponse(m), chat_msg)
    ELSE HandleChatMessage(m, chat_msg)

\* the ChatMessage arm, the same in both onmessage closures
ArmChatMessage(m, ch, chat_msg) ==
    IF IsPingText(chat_msg.message) /\ chat_msg.username = chans[ch].username
    THEN HandlePingResponse(m)
    ELSE HandleChatMessage(m, chat_msg)

\* mutant: the error is only logged
ArmErrorSilent(m, msg) == m

\* the Error arm, the same in both onmessage closures
ArmError(m, msg) ==
    [m EXCEPT !.chatMessages = AppendChatMessage(@, <<"Error", msg.message>>)]

\* mutant: a record already stored for the username is kept
ArmPlayerJoinedKeepsStored(m, msg) ==
    IF msg.username \in DOMAIN m.players
    THEN PageCall(m, "updatePlayerInList", msg.username)
    ELSE UpdateGameClientPlayer(PageCall(m, "updatePlayerInList", msg.username),
                                msg.username, msg.x, msg.y, DefaultHealth, DefaultResources)

ArmPlayerJoined(m, msg) ==
    UpdateGameClientPlayer(PageCall(m, "updatePlayerInList", msg.username),
                           msg.username, msg.x, msg.y, DefaultHealth, DefaultResources)

\* mutant: health and resources are passed in the wrong order
ArmPlayerUpdateSwapped(m, msg) ==
    LET m1 == UpdateGameClientPlayer(PageCall(m, "updatePlayerInList", msg.username),
                                     msg.username, msg.x, msg.y, msg.resources, msg.health)
    IN [m1 EXCEPT !.positionDisplay = UpdatePositionDisplay(@, msg.username, msg.x, msg.y)]

ArmPlayerUpdate(m, msg) ==
    LET m1 == UpdateGameClientPlayer(PageCall(m, "updatePlayerInList", msg.username),
                                     msg.username, msg.x, msg.y, msg.health, msg.resources)
    IN [m1 EXCEPT !.positionDisplay = UpdatePositionDisplay(@, msg.username, msg.x, msg.y)]

ArmPlayerLeft(m, msg) == PageCall(m, "removePlayerFromList", msg.username)

ArmGameState(m, msg) == UpdateAllGamePlayers(UpdatePlayerListAll(m, msg.players), msg.players)

\* mutant: a frame that does not decode is reported in the chat panel
ParseErrorShown(m, raw) ==
    [m EXCEPT !.chatMessages = AppendChatMessage(@, <<"Failed to parse message">>)]

\* the Err arm of both onmessage closures: the frame is logged to the console
ParseError(m, raw) == m

\* the onmessage closure of setup_websocket_handlers
DispatchAuto(m, ch, msg) ==
    CASE msg.type = "player_joined" -> ArmPlayerJoined(m, msg)
      [] msg.type = "player_update" -> ArmPlayerUpdate(m, msg)
      [] msg.type = "player_left" -> ArmPlayerLeft(m, msg)
      [] msg.type = "game_state" -> ArmGameState(m, msg)
      [] msg.type = "chat_message" -> ArmChatMessage(m, ch, msg)
      [] msg.type = "error" -> ArmError(m, msg)
      [] OTHER -> m

\* the onmessage closure of setup_websocket_handlers_lobby_only
DispatchLobby(m, ch, msg) ==
    CASE msg.type = "chat_message" -> ArmChatMessage(m, ch, msg)
      [] msg.type = "error" -> ArmError(m, msg)
      [] OTHER -> m

-----------------------------------------------------------------------------
Init ==
    /\ username = ""
    /\ room = ""
    /\ websocket = 0
    /\ chans = <<>>
    /\ players = EmptyMap
    /\ my_player = None
    /\ pending_messages = EmptyMap
    /\ chatMessages = <<>>
    /\ positionDisplay = None
    /\ nextElem = 0
    /\ calls = <<>>
    /\ out = <<>>
    /\ last = [op |-> "new"]
    /\ hb = [outstanding |-> FALSE, inflight |-> <<>>]

set_user_info(u, r) ==
    /\ username' = u
    /\ room' = r
    /\ out' = <<>>
    /\ calls' = <<>>
    /\ last' = [op |-> "set_user_info", username |-> u, room |-> r]
    /\ UNCHANGED <<websocket, chans, players, my_player, pending_messages,
                   chatMessages, positionDisplay, nextElem>>

\* connect (mode "auto") and connect_to_server (mode "lobby")
NewChannel(mode) ==
    /\ chans' = Append(chans, Channel(mode, username, room, "CONNECTING"))
    /\ websocket' = Len(chans) + 1
    /\ out' = <<>>
    /\ calls' = <<>>
    /\ last' = [op |-> IF mode = "auto" THEN "connect" ELSE "connect_to_server",
                ch |-> Len(chans) + 1, ret |-> "Ok"]
    /\ UNCHANGED <<username, room, players, my_player, pending_messages,
                   chatMessages, positionDisplay, nextElem>>

connect == NewChannel("auto")

connect_to_server == NewChannel("lobby")

\* the onopen closures
onopen(ch) ==
    /\ chans[ch].ready = "CONNECTING"
    /\ chans' = SetReady(ch, "OPEN")
    /\ out' = IF chans[ch].mode = "auto"
              THEN Transmit(chans', ch, JoinFrame(chans[ch].username, chans[ch].room))
              ELSE <<>>
    /\ calls' = IF chans[ch].mode = "auto"
                THEN <<<<"setup_click_handler", "">>, <<"start_game_loop", "">>>>
                ELSE <<>>
    /\ last' = [op |-> "onopen", ch |-> ch]
    /\ UNCHANGED <<username, room, websocket, players, my_player, pending_messages,
                   chatMessages, positionDisplay, nextElem>>

\* the onerror closures.  The browser reports an error on a channel it has
\* failed: the channel is already closed to the program ("FAILED" is
\* readyState CLOSED with the close event still to come).
onerror(ch) ==
    /\ chans[ch].ready \in {"CONNECTING", "OPEN"}
    /\ Len(chatMessages) < MaxLines
    /\ chans' = SetReady(ch, "FAILED")
    /\ chatMessages' = AppendChatMessage(chatMessages, <<"Connection error - please refresh to reconnect">>)
    /\ out' = <<>>
    /\ calls' = <<>>
    /\ last' = [op |-> "onerror", ch |-> ch]
    /\ UNCHANGED <<username, room, websocket, players, my_player, pending_messages,
                   positionDisplay, nextElem>>

\* mutant: the close handler opens a new channel in place of the closed one
onclose_reconnects(ch) ==
    /\ chans[ch].ready \in {"CONNECTING", "OPEN", "FAILED"}
    /\ Len(chatMessages) < MaxLines
    /\ chans' = IF Len(chans) < MaxChans
                THEN Append(SetReady(ch, "CLOSED"),
                            Channel(chans[ch].mode, username, room, "CONNECTING"))
                ELSE SetReady(ch, "CLOSED")
    /\ websocket' = IF Len(chans) < MaxChans THEN Len(chans) + 1 ELSE websocket
    /\ chatMessages' = AppendChatMessage(chatMessages, <<"Connection lost. Please refresh to reconnect.">>)
    /\ out' = <<>>
    /\ calls' = <<>>
    /\ last' = [op |-> "onclose", ch |-> ch]
    /\ UNCHANGED <<username, room, players, my_player, pending_messages,
                   positionDisplay, nextElem>>

\* the onclose closures
onclose(ch) ==
    /\ chans[ch].ready \in {"CONNECTING", "OPEN", "FAILED"}
    /\ Len(chatMessages) < MaxLines
    /\ chans' = SetReady(ch, "CLOSED")
    /\ chatMessages' = AppendChatMessage(chatMessages, <<"Connection lost. Please refresh to reconnect.">>)
    /\ out' = <<>>
    /\ calls' = <<>>
    /\ last' = [op |-> "onclose", ch |-> ch]
    /\ UNCHANGED <<username, room, websocket, players, my_player, pending_messages,
                   positionDisplay, nextElem>>

\* the onmessage closures: one frame delivered on channel ch
onmessage(ch, msg) ==
    /\ chans[ch].ready = "OPEN"
    /\ LET m == IF ~from_str(msg) THEN ParseError(Mem, msg)
                ELSE IF chans[ch].mode = "auto" THEN DispatchAuto(Mem, ch, msg)
                                                ELSE DispatchLobby(Mem, ch, msg)
       IN SetMem(m)
    /\ out' = <<>>
    /\ last' = [op |-> "onmessage", ch |-> ch, msg |-> msg]
    /\ UNCHANGED <<username, room, websocket, chans>>

\* mutant: the move is also written to the local player's table entry
send_move_command_moves_player(x, y) ==
    /\ IF is_websocket_connected
       THEN /\ out' = Transmit(chans, websocket, MoveFrame(username, x, y, room))
            /\ positionDisplay' = UpdatePositionDisplay(positionDisplay, username, x, y)
            /\ players' = IF ContainsKey(players, username)
                          THEN [players EXCEPT ![username].x = x, ![username].y = y]
                          ELSE players
       ELSE /\ out' = <<>>
            /\ positionDisplay' = positionDisplay
            /\ players' = players
    /\ calls' = <<>>
    /\ last' = [op |-> "send_move_command", x |-> x, y |-> y, ret |-> "Ok",
                connected |-> is_websocket_connected]
    /\ UNCHANGED <<username, room, websocket, chans, my_player,
                   pending_messages, chatMessages, nextElem>>

send_move_command(x, y) ==
    /\ IF is_websocket_connected
       THEN /\ out' = Transmit(chans, websocket, MoveFrame(username, x, y, room))
            /\ positionDisplay' = IF SendOk(chans, websocket)
                                  THEN UpdatePositionDisplay(positionDisplay, username, x, y)
                                  ELSE positionDisplay
       ELSE /\ out' = <<>>
            /\ positionDisplay' = positionDisplay
    /\ calls' = <<>>
    /\ last' = [op |-> "send_move_command", x |-> x, y |-> y, ret |-> "Ok",
                connected |-> is_websocket_connected]
    /\ UNCHANGED <<username, room, websocket, chans, players, my_player,
                   pending_messages, chatMessages, nextElem>>

\* mutant: outside Open the call gives up without an error, as a move does
join_battle_silent ==
    /\ IF is_websocket_connected
       THEN /\ out' = Transmit(chans, websocket, JoinFrame(username, room))
            /\ calls' = <<<<"setup_click_handler", "">>>>
            /\ last' = [op |-> "join_battle", ret |-> "Ok"]
       ELSE /\ out' = <<>>
            /\ calls' = <<>>
            /\ last' = [op |-> "join_battle", ret |-> "Ok"]
    /\ UNCHANGED <<username, room, websocket, chans, players, my_player,
                   pending_messages, chatMessages, positionDisplay, nextElem>>

join_battle ==
    /\ IF is_websocket_connected
       THEN /\ out' = Transmit(chans, websocket, JoinFrame(username, room))
            /\ calls' = <<<<"setup_click_handler", "">>>>
            /\ last' = [op |-> "join_battle", ret |-> "Ok"]
       ELSE /\ out' = <<>>
            /\ calls' = <<>>
            /\ last' = [op |-> "join_battle", ret |-> "Err",
                        err |-> "Not connected to server"]
    /\ UNCHANGED <<username, room, websocket, chans, players, my_player,
                   pending_messages, chatMessages, positionDisplay, nextElem>>

\* mutant: outside Open the probe reports the failure as a chat send does
send_ping_notifies ==
    /\ out' = IF is_websocket_connected
              THEN Transmit(chans, websocket, MessageFrame(username, PingText, room))
              ELSE <<>>
    /\ chatMessages' = IF is_websocket_connected THEN chatMessages
                       ELSE AppendChatMessage(chatMessages, <<"Not connected to server">>)
    /\ calls' = <<>>
    /\ last' = [op |-> "send_ping", ret |-> "Ok", connected |-> is_websocket_connected]
    /\ UNCHANGED <<username, room, websocket, chans, players, my_player,
                   pending_messages, positionDisplay, nextElem>>

send_ping ==
    /\ out' = IF is_websocket_connected
              THEN Transmit(chans, websocket, MessageFrame(username, PingText, room))
              ELSE <<>>
    /\ calls' = <<>>
    /\ last' = [op |-> "send_ping", ret |-> "Ok", connected |-> is_websocket_connected]
    /\ UNCHANGED <<username, room, websocket, chans, players, my_player,
                   pending_messages, chatMessages, positionDisplay, nextElem>>

\* mutant: the pending entry is registered whatever send_with_str returned
SendMessageRegistersAlways(m, message, accepted) ==
    IF ~is_websocket_connected
    THEN IF ~IsPingText(message)
         THEN [m EXCEPT !.chatMessages = AppendChatMessage(@, <<"Not connected to server">>)]
         ELSE m
    ELSE IF IsPingText(message) THEN m ELSE AddPendingMessage(m, message)

\* send_message, from the record of what it writes to the next; accepted is
\* the result of websocket.send_with_str: Ok (TRUE) or Err (FALSE)
SendMessageWith(m, message, accepted) ==
    IF ~is_websocket_connected
    THEN IF ~IsPingText(message)
         THEN [m EXCEPT !.chatMessages = AppendChatMessage(@, <<"Not connected to server">>)]
         ELSE m
    ELSE IF accepted
         THEN IF IsPingText(message) THEN m ELSE AddPendingMessage(m, message)
         ELSE IF ~IsPingText(message)
              THEN [m EXCEPT !.chatMessages =
                       AppendChatMessage(@, <<"Failed to send message - connection lost">>)]
              ELSE m

\* send_message on a channel whose send_with_str returns the given result
send_message_with(message, accepted) ==
    /\ LET m == SendMessageWith(Mem, message, accepted)
       IN /\ Len(m.chatMessages) <= MaxLines
          /\ SetMem(m)
    /\ out' = IF is_websocket_connected /\ accepted
              THEN Transmit(chans, websocket, MessageFrame(username, message, room))
              ELSE <<>>
    /\ last' = [op |-> "send_message", message |-> message, ret |-> "Ok",
                connected |-> is_websocket_connected]
    /\ UNCHANGED <<username, room, websocket, chans>>

\* the result a browser's WebSocket gives
SendResult == IF websocket # 0 THEN SendOk(chans, websocket) ELSE FALSE

SendMessage(m, message) == SendMessageWith(m, message, SendResult)

send_message(message) == send_message_with(message, SendResult)

-----------------------------------------------------------------------------
(* Inbound frames *)

RECURSIVE SeqsUpTo(_, _)
SeqsUpTo(S, n) ==
    IF n = 0 THEN {<<>>}
    ELSE LET shorter == SeqsUpTo(S, n - 1)
         IN shorter \cup {Append(s, e) : s \in shorter, e \in S}

SnapshotPlayers ==
    {Player(u, v[1], v[2], r, v[3], v[4]) : u \in Users, r \in Rooms, v \in SnapshotVals}

Snapshots == SeqsUpTo(SnapshotPlayers, MaxSnap)

WorldFrames ==
    {PlayerJoinedFrame(u, p[1], p[2]) : u \in Users, p \in Positions}
    \cup {PlayerUpdateFrame(u, p[1], p[2], s[1], s[2]) : u \in Users, p \in Positions, s \in StatVals}
    \cup {PlayerLeftFrame(u) : u \in Users}
    \cup {GameStateFrame(ps) : ps \in Snapshots}

\* chat texts: "hi", " Hi ", "p", " P" and "__ping__"
Texts == {<<"h", "i">>, <<" ", "H", "i", " ">>, PingText, <<" ", "P">>, LegacyPingText}

ChatFrames ==
    {ChatMessageFrame(u, t) : u \in Users, t \in Texts}
    \cup {ErrorFrame(t) : t \in ErrorTexts}

-----------------------------------------------------------------------------
(* The session as seen by the game: identity set before connecting, one    *)
(* channel (the session connects once), frames of the player protocol,     *)
(* moves.                                                                  *)

NextWorld ==
    \/ \E u \in Users, r \in Rooms : websocket = 0 /\ set_user_info(u, r) /\ UNCHANGED hb
    \/ websocket = 0 /\ connect /\ UNCHANGED hb
    \/ websocket = 0 /\ connect_to_server /\ UNCHANGED hb
    \/ \E ch \in DOMAIN chans : onopen(ch) /\ UNCHANGED hb
    \/ \E ch \in DOMAIN chans : onclose(ch) /\ UNCHANGED hb
    \/ \E ch \in DOMAIN chans, msg \in WorldFrames :
           onmessage(ch, msg) /\ Len(chatMessages') <= MaxLines /\ UNCHANGED hb
    \/ \E p \in Positions : send_move_command(p[1], p[2]) /\ UNCHANGED hb
    \/ join_battle /\ UNCHANGED hb

SpecWorld == Init /\ [][NextWorld]_vars

(* The session as seen by the chat panel: identity set before connecting,  *)
(* one channel, chat and error frames, chat sends and probes.              *)

NextChat ==
    \/ \E u \in Users, r \in Rooms : websocket = 0 /\ set_user_info(u, r) /\ UNCHANGED hb
    \/ websocket = 0 /\ connect /\ UNCHANGED hb
    \/ websocket = 0 /\ connect_to_server /\ UNCHANGED hb
    \/ \E ch \in DOMAIN chans : onopen(ch) /\ UNCHANGED hb
    \/ \E ch \in DOMAIN chans : onclose(ch) /\ UNCHANGED hb
    \/ \E ch \in DOMAIN chans, msg \in ChatFrames :
           onmessage(ch, msg) /\ Len(chatMessages') <= MaxLines /\ UNCHANGED hb
    \/ \E t \in Texts : send_message(t) /\ UNCHANGED hb
    \/ send_ping /\ UNCHANGED hb

SpecChat == Init /\ [][NextChat]_vars

(* The dispatcher: one channel on which frames of every kind arrive, well  *)
(* formed or not, while the table and the pending index fill.              *)

\* frames that do not decode: an unknown tag, data without a tag (not JSON,
\* or not text), missing fields, and a negative number for a u32
MalformedFrames ==
    {[type |-> "bogus", username |-> "bob"],
     [garbage |-> TRUE],
     [type |-> "player_joined", username |-> "bob"],
     [type |-> "player_update", username |-> "alice", x |-> -1, y |-> 0,
      health |-> 100, resources |-> 0],
     [type |-> "chat_message", username |-> "bob", message |-> <<"h", "i">>],
     [type |-> "game_state", players |-> <<[username |-> "bob"]>>],
     [type |-> "error"]}

DispatchFrames ==
    MalformedFrames
    \cup {PlayerJoinedFrame("alice", 1, 2),
          PlayerUpdateFrame("bob", 0, 0, 40, 7),
          PlayerLeftFrame("bob"),
          GameStateFrame(<<Player("bob", 1, 2, "r1", 100, 0)>>),
          ChatMessageFrame("bob", <<"H", "i", " ">>),
          ChatMessageFrame("alice", PingText),
          ErrorFrame(<<"a">>),
          JoinFrame("bob", "r1")}

NextDispatch ==
    \/ \E u \in Users, r \in Rooms : websocket = 0 /\ set_user_info(u, r) /\ UNCHANGED hb
    \/ websocket = 0 /\ connect /\ UNCHANGED hb
    \/ websocket = 0 /\ connect_to_server /\ UNCHANGED hb
    \/ \E ch \in DOMAIN chans : onopen(ch) /\ UNCHANGED hb
    \/ \E ch \in DOMAIN chans, msg \in DispatchFrames :
           onmessage(ch, msg) /\ Len(chatMessages') <= MaxLines /\ UNCHANGED hb
    \/ send_message(<<"h", "i">>) /\ UNCHANGED hb

SpecDispatch == Init /\ [][NextDispatch]_vars

(* The heartbeat: the page's latency monitor issues probes through         *)
(* send_ping and is notified through window.onPingReceived; the user sends *)
(* chat texts; the server echoes every message frame it receives to its    *)
(* sender as a chat_message with the same username and text.  The monitor  *)
(* is not part of lib.rs: it is taken to issue a probe only while the      *)
(* connection is Open and no probe of its own is outstanding.              *)

\* a frame whose echo the ChatMessage arm takes for a probe echo
IsProbeFrame(f) == f.frame.type = "message" /\ IsPingText(f.frame.message)

ProbesIn(frames) == SelectSeq(frames, IsProbeFrame)

HeartbeatTexts == {<<"h", "i">>, PingText}

monitor_tick ==
    /\ is_websocket_connected
    /\ ~hb.outstanding
    /\ send_ping
    /\ hb' = [outstanding |-> TRUE, inflight |-> hb.inflight \o ProbesIn(out')]

chat_send(t) ==
    /\ Len(hb.inflight) < MaxInflight
    /\ send_message(t)
    /\ hb' = [hb EXCEPT !.inflight = @ \o ProbesIn(out')]

\* the echo of the oldest probe frame on the wire arrives
probe_echo ==
    /\ hb.inflight # <<>>
    /\ LET f == Head(hb.inflight)
       IN onmessage(f.ch, ChatMessageFrame(f.frame.username, f.frame.message))
    /\ hb' = [outstanding |-> IF \E i \in DOMAIN calls' : calls'[i][1] = "onPingReceived"
                              THEN FALSE ELSE hb.outstanding,
              inflight |-> Tail(hb.inflight)]

\* frames sent on a channel that closes are never echoed
channel_closed(ch) ==
    /\ onclose(ch)
    /\ hb' = [hb EXCEPT !.inflight = <<>>]

NextHeartbeat ==
    \/ \E u \in Users, r \in Rooms : websocket = 0 /\ set_user_info(u, r) /\ UNCHANGED hb
    \/ websocket = 0 /\ connect /\ UNCHANGED hb
    \/ websocket = 0 /\ connect_to_server /\ UNCHANGED hb
    \/ \E ch \in DOMAIN chans : onopen(ch) /\ UNCHANGED hb
    \/ \E ch \in DOMAIN chans : channel_closed(ch)
    \/ \E ch \in DOMAIN chans :
           /\ onmessage(ch, ChatMessageFrame("bob", <<"h", "i">>))
           /\ Len(chatMessages') <= MaxLines
           /\ UNCHANGED hb
    \/ monitor_tick
    \/ \E t \in HeartbeatTexts : chat_send(t)
    \/ probe_echo

SpecHeartbeat == Init /\ [][NextHeartbeat]_vars

(* Chat under a server that echoes every message frame it receives, in     *)
(* order, on a channel that stays open: hb.inflight holds the message      *)
(* frames sent and not yet echoed.                                         *)

EchoTexts == {<<"h", "i">>, <<" ", "H", "i", " ">>}

IsMessageFrame(f) == f.frame.type = "message"

echo_send(t) ==
    /\ Len(hb.inflight) < MaxInflight
    /\ send_message(t)
    /\ hb' = [hb EXCEPT !.inflight = @ \o SelectSeq(out', IsMessageFrame)]

\* the echo of the oldest message frame on the wire arrives
server_echo ==
    /\ hb.inflight # <<>>
    /\ LET f == Head(hb.inflight)
       IN onmessage(f.ch, ChatMessageFrame(f.frame.username, f.frame.message))
    /\ hb' = [hb EXCEPT !.inflight = Tail(@)]

NextEcho ==
    \/ \E u \in Users, r \in Rooms : websocket = 0 /\ set_user_info(u, r) /\ UNCHANGED hb
    \/ websocket = 0 /\ connect /\ UNCHANGED hb
    \/ websocket = 0 /\ connect_to_server /\ UNCHANGED hb
    \/ \E ch \in DOMAIN chans : onopen(ch) /\ UNCHANGED hb
    \/ \E t \in EchoTexts : echo_send(t)
    \/ server_echo

SpecEcho == Init /\ [][NextEcho]_vars

(* The identity: set_user_info may be called at any time, before and after *)
(* the session's one connect; every operation that sends is called, and    *)
(* the server echoes probes under either username.                         *)

IdentityRooms == {"r1", "r2"}

NextIdentity ==
    \/ \E u \in Users, r \in IdentityRooms : set_user_info(u, r) /\ UNCHANGED hb
    \/ websocket = 0 /\ connect /\ UNCHANGED hb
    \/ websocket = 0 /\ connect_to_server /\ UNCHANGED hb
    \/ \E ch \in DOMAIN chans : onopen(ch) /\ UNCHANGED hb
    \/ \E ch \in DOMAIN chans, u \in Users :
           /\ onmessage(ch, ChatMessageFrame(u, PingText))
           /\ Len(chatMessages') <= MaxLines
           /\ UNCHANGED hb
    \/ send_ping /\ UNCHANGED hb
    \/ send_message(<<"h", "i">>) /\ UNCHANGED hb
    \/ send_move_command(1, 2) /\ UNCHANGED hb
    \/ join_battle /\ UNCHANGED hb

SpecIdentity == Init /\ [][NextIdentity]_vars

(* Sending chat: the result of the channel's send is the host's, so both   *)
(* results are drawn for every send.                                       *)

NextSend ==
    \/ \E u \in Users, r \in Rooms : websocket = 0 /\ set_user_info(u, r) /\ UNCHANGED hb
    \/ websocket = 0 /\ connect /\ UNCHANGED hb
    \/ \E ch \in DOMAIN chans : onopen(ch) /\ UNCHANGED hb
    \/ \E ch \in DOMAIN chans : onclose(ch) /\ UNCHANGED hb
    \/ \E ch \in DOMAIN chans, msg \in ChatFrames :
           onmessage(ch, msg) /\ Len(chatMessages') <= MaxLines /\ UNCHANGED hb
    \/ \E t \in Texts, accepted \in BOOLEAN :
           send_message_with(t, accepted) /\ UNCHANGED hb

SpecSend == Init /\ [][NextSend]_vars

(* The connection life cycle: the identity may change at any time, a       *)
(* second channel may be created while the first still exists, channels    *)
(* open, fail and close, and each delivers frames while it is open.        *)

SessionFrames == {ChatMessageFrame("bob", <<"h", "i">>), PlayerJoinedFrame("bob", 1, 2)}

NextSession ==
    \/ \E u \in Users, r \in Rooms : set_user_info(u, r) /\ UNCHANGED hb
    \/ Len(chans) < MaxChans /\ connect /\ UNCHANGED hb
    \/ Len(chans) < MaxChans /\ connect_to_server /\ UNCHANGED hb
    \/ \E ch \in DOMAIN chans : onopen(ch) /\ UNCHANGED hb
    \/ \E ch \in DOMAIN chans : onerror(ch) /\ UNCHANGED hb
    \/ \E ch \in DOMAIN chans : onclose(ch) /\ UNCHANGED hb
    \/ \E ch \in DOMAIN chans, msg \in SessionFrames :
           onmessage(ch, msg) /\ Len(chatMessages') <= MaxLines /\ UNCHANGED hb
    \/ join_battle /\ UNCHANGED hb

SpecSession == Init /\ [][NextSession]_vars
-----------------------------------------------------------------------------
(* Vocabulary of the properties: what the most recent step was, stated on  *)
(* the raw state rather than through the operators of the model.           *)

Dispatched(type) ==
    /\ last.op = "onmessage"
    /\ last.msg.type = type

DispatchedAuto(type) ==
    /\ Dispatched(type)
    /\ chans[last.ch].mode = "auto"

ConnectionOpen ==
    /\ websocket # 0
    /\ chans[websocket].ready = "OPEN"

UsernamesOf(ps) == {ps[i].username : i \in DOMAIN ps}

\* the record of a snapshot that is the last one for its username
IsLastFor(ps, i) == \A j \in DOMAIN ps : j > i => ps[j].username # ps[i].username

SameWorld(w1, w2) ==
    /\ DOMAIN w1.players = DOMAIN w2.players
    /\ \A k \in DOMAIN w1.players : w1.players[k] = w2.players[k]
    /\ w1.my_player = w2.my_player

-----------------------------------------------------------------------------
(* C1: the player table never holds two entries for one username: the      *)
(* entry stored under key u has username u, and no username occurs in more *)
(* than one entry.                                                         *)
C1_OneEntryPerUsername ==
    /\ \A k \in DOMAIN players : players[k].username = k
    /\ \A u \in Users : Cardinality({k \in DOMAIN players : players[k].username = u}) <= 1

\* both users are in the table, alice last re-announced by player_joined
\* after bob's record had been overwritten by an update or a snapshot
C1_Witness ==
    /\ DispatchedAuto("player_joined")
    /\ last.msg.username = "alice"
    /\ DOMAIN players = Users
    /\ players["bob"].health = 40
    /\ positionDisplay = Some(<<1, 2>>)

(* C2: right after a game_state frame is dispatched by the auto-join       *)
(* handler the table holds exactly the players of the snapshot: its keys   *)
(* are the snapshot's usernames, and each maps to the snapshot's (last)    *)
(* record for it.                                                          *)
C2_GameStateReplaces ==
    DispatchedAuto("game_state") =>
        LET S == last.msg.players IN
        /\ DOMAIN players = UsernamesOf(S)
        /\ \A i \in DOMAIN S : IsLastFor(S, i) => players[S[i].username] = S[i]

\* a snapshot without the local user arrives when the local user had been
\* in the table: the entry is gone
C2_Witness ==
    /\ DispatchedAuto("game_state")
    /\ Len(last.msg.players) = 2
    /\ last.msg.players[1] # last.msg.players[2]
    /\ IsSome(my_player)
    /\ username \notin DOMAIN players
    /\ DOMAIN players # {}

(* C3: game_state is idempotent: from every reachable world and for every  *)
(* snapshot, applying the snapshot twice gives the table and the self      *)
(* reference that applying it once gives.                                  *)
C3_GameStateIdempotent ==
    \A S \in Snapshots :
        LET once == UpdateAllPlayers(World(players, my_player), username, S)
            twice == UpdateAllPlayers(once, username, S)
        IN SameWorld(twice, once)

\* a world on which some snapshot is not a no-op, reached through a snapshot
C3_Witness ==
    /\ DispatchedAuto("game_state")
    /\ IsSome(my_player)
    /\ DOMAIN players = Users
    /\ \E S \in Snapshots :
           /\ Len(S) = 2
           /\ ~SameWorld(UpdateAllPlayers(World(players, my_player), username, S),
                         World(players, my_player))

(* C4, as claimed: a move issued while the connection is Open puts the     *)
(* local player's table entry at (x, y) at once.                           *)
C4_MoveUpdatesTable ==
    (/\ last.op = "send_move_command"
     /\ ConnectionOpen
     /\ username \in DOMAIN players)
    => (players[username].x = last.x /\ players[username].y = last.y)

(* C4, amended: a move issued while the connection is Open sends the move  *)
(* frame and writes (x, y) to the position display only (when the page     *)
(* shows the local username); the table and the self reference are left    *)
(* as they were.  A later player_update for the local username sets the    *)
(* table entry, the self reference and the display to the server's values. *)
C4_MoveStep ==
    (/\ last'.op = "send_move_command"
     /\ ConnectionOpen)
    => /\ players' = players
       /\ my_player' = my_player
       /\ out' = <<[ch |-> websocket,
                    frame |-> [type |-> "move", username |-> username,
                               x |-> last'.x, y |-> last'.y, room |-> room]]>>
       /\ positionDisplay' = IF UserDisplayText = username
                             THEN <<<<last'.x, last'.y>>>>
                             ELSE positionDisplay

C4_ServerOverwrites ==
    (/\ DispatchedAuto("player_update")
     /\ last.msg.username = username)
    => /\ players[username].x = last.msg.x
       /\ players[username].y = last.msg.y
       /\ my_player = <<players[username]>>
       /\ (UserDisplayText = username => positionDisplay = <<<<last.msg.x, last.msg.y>>>>)

C4_OptimisticDisplayOnly == [][C4_MoveStep]_vars /\ []C4_ServerOverwrites

\* the local player is in the table at one cell, has just moved to another,
\* and the display shows the new cell
C4_Witness ==
    /\ last.op = "send_move_command"
    /\ ConnectionOpen
    /\ username \in DOMAIN players
    /\ players[username].x # last.x
    /\ positionDisplay = Some(<<last.x, last.y>>)

(* C5: after a player_left frame for u is dispatched the table has no      *)
(* entry for u.                                                            *)
C5_PlayerLeftRemoves ==
    DispatchedAuto("player_left") => last.msg.username \notin DOMAIN players

(* C6: a player_update frame overwrites the record stored for its username *)
(* with exactly the frame's values (and the session's room), sets the self *)
(* reference to that record when the username is the local one, and leaves *)
(* the entry of every other username as it was.                            *)
C6_Overwritten ==
    DispatchedAuto("player_update") =>
        LET record == [username |-> last.msg.username, x |-> last.msg.x, y |-> last.msg.y,
                       room |-> room, health |-> last.msg.health,
                       resources |-> last.msg.resources]
        IN /\ last.msg.username \in DOMAIN players
           /\ players[last.msg.username] = record
           /\ (last.msg.username = username => my_player = <<record>>)

C6_OthersKept ==
    (/\ last'.op = "onmessage"
     /\ last'.msg.type = "player_update"
     /\ chans[last'.ch].mode = "auto")
    => /\ DOMAIN players' = DOMAIN players \cup {last'.msg.username}
       /\ \A v \in DOMAIN players : v # last'.msg.username => players'[v] = players[v]
       /\ (last'.msg.username # username => my_player' = my_player)

C6_PlayerUpdateOverwrites == []C6_Overwritten /\ [][C6_OthersKept]_vars

\* the local user's record is overwritten with non-default values while
\* the other user is in the table
C6_Witness ==
    /\ DispatchedAuto("player_update")
    /\ last.msg.username = username
    /\ last.msg.health = 40
    /\ DOMAIN players = Users
    /\ IsSome(my_player)

(* C7: pending-chat reconciliation ignores case and surrounding white      *)
(* space: from every reachable index, registering t1 and then retiring     *)
(* with any t2 of the same lowercase(trim(.)) removes from the index, and  *)
(* from the panel, the very placeholder t1 created; retiring with a text   *)
(* whose key is not pending removes nothing and leaves the index as it is. *)
ClaimedKey(t) == ToLowercase(Trim(t))

C7_RegisterThenRetire ==
    \A t1 \in Texts, t2 \in Texts, u \in Users :
        (~IsPingText(t1) /\ ClaimedKey(t1) = ClaimedKey(t2)) =>
            LET registered == AddPendingMessage(Mem, t1)
                created == registered.chatMessages[Len(registered.chatMessages)]
                retired == HandleChatMessage(registered, [username |-> u, message |-> t2])
            IN /\ created.kind = "pending"
               /\ created.text[3] = t1
               /\ ClaimedKey(t1) \in DOMAIN registered.pending_messages
               /\ registered.pending_messages[ClaimedKey(t1)] = created
               /\ ClaimedKey(t1) \notin DOMAIN retired.pending_messages
               /\ retired.calls = <<<<"removeChild", created>>>>
               /\ \A i \in DOMAIN retired.chatMessages : retired.chatMessages[i] # created

C7_RetireUnregistered ==
    \A t \in Texts, u \in Users :
        ClaimedKey(t) \notin DOMAIN pending_messages =>
            LET retired == HandleChatMessage(Mem, [username |-> u, message |-> t])
            IN /\ retired.calls = <<>>
               /\ DOMAIN retired.pending_messages = DOMAIN pending_messages
               /\ \A k \in DOMAIN pending_messages :
                      retired.pending_messages[k] = pending_messages[k]

C7_PendingReconciliation == C7_RegisterThenRetire /\ C7_RetireUnregistered

\* an echo whose text differs from the text sent, but not in its key, has
\* just retired the placeholder of the send
C7_Witness ==
    /\ Dispatched("chat_message")
    /\ Len(calls) = 1
    /\ calls[1][1] = "removeChild"
    /\ calls[1][2].text[3] # last.msg.message
    /\ DOMAIN pending_messages = {}

(* C8: a probe echo, a chat_message from the local username whose text is  *)
(* the sentinel "p", only notifies the latency monitor: it adds no line to *)
(* the chat panel and leaves the pending index alone, in auto-join and in  *)
(* lobby mode.                                                             *)
C8_ProbeEchoStep ==
    (/\ last'.op = "onmessage"
     /\ last'.msg.type = "chat_message"
     /\ last'.msg.message = <<"p">>
     /\ last'.msg.username = username)
    => /\ calls' = <<<<"onPingReceived", "">>>>
       /\ chatMessages' = chatMessages
       /\ pending_messages' = pending_messages
       /\ nextElem' = nextElem

C8_ProbeEchoToLatencyOnly == [][C8_ProbeEchoStep]_vars

\* a probe echo in lobby mode while a chat text with the key "p" is pending
C8_Witness ==
    /\ Dispatched("chat_message")
    /\ last.msg.message = <<"p">>
    /\ last.msg.username = username
    /\ chans[last.ch].mode = "lobby"
    /\ <<"p">> \in DOMAIN pending_messages
    /\ calls = <<<<"onPingReceived", "">>>>

(* C9, as claimed: sending a chat message while the connection is not Open *)
(* returns a NotConnected error to the caller and sends nothing.           *)
C9_NotConnectedError ==
    (/\ last.op = "send_message"
     /\ ~IsPingText(last.message)
     /\ ~ConnectionOpen)
    => (last.ret = "Err" /\ out = <<>>)

(* C9, amended: sending a chat message while the connection is not Open    *)
(* returns Ok to the caller; the failure is shown as a "Not connected to   *)
(* server" line in the chat panel (not for the probe sentinels); no frame  *)
(* is sent and no pending entry is registered.                             *)
C9_NotConnectedStep ==
    (/\ last'.op = "send_message"
     /\ ~ConnectionOpen)
    => /\ last'.ret = "Ok"
       /\ out' = <<>>
       /\ pending_messages' = pending_messages
       /\ nextElem' = nextElem
       /\ chatMessages' =
              IF last'.message \in {<<"p">>, <<"_", "_", "p", "i", "n", "g", "_", "_">>}
              THEN chatMessages
              ELSE Append(chatMessages, [kind |-> "line", text |-> <<"Not connected to server">>])

C9_NotConnectedShown == [][C9_NotConnectedStep]_vars

\* a chat text is sent on a channel that exists but is not open
C9_Witness ==
    /\ last.op = "send_message"
    /\ ~IsPingText(last.message)
    /\ websocket # 0
    /\ chans[websocket].ready # "OPEN"
    /\ chatMessages # <<>>

(* C10: in auto-join mode the open signal sends exactly one join frame,    *)
(* carrying the configured username and room; and when the first frame     *)
(* after it is a game_state with two players, the table then holds exactly *)
(* those two, and the self reference is set iff one of them has the local  *)
(* username (and is then that player's record).                            *)
C10_JoinOnOpen ==
    (last.op = "onopen" /\ chans[last.ch].mode = "auto")
    => out = <<[ch |-> last.ch,
                frame |-> [type |-> "join", username |-> username, room |-> room]]>>

C10_FirstSnapshot ==
    (/\ last.op = "onopen"
     /\ chans[last.ch].mode = "auto"
     /\ last'.op = "onmessage"
     /\ last'.ch = last.ch
     /\ last'.msg.type = "game_state"
     /\ Len(last'.msg.players) = 2
     /\ last'.msg.players[1].username # last'.msg.players[2].username)
    => LET S == last'.msg.players IN
       /\ DOMAIN players' = {S[1].username, S[2].username}
       /\ players'[S[1].username] = S[1]
       /\ players'[S[2].username] = S[2]
       /\ (my_player' # <<>>) <=> (username \in {S[1].username, S[2].username})
       /\ (my_player' # <<>>) => my_player' = <<players'[username]>>

C10_AutoJoinScenario == []C10_JoinOnOpen /\ [][C10_FirstSnapshot]_vars

\* the two-player snapshot has been applied and one of the two is the
\* local user
C10_Witness ==
    /\ DispatchedAuto("game_state")
    /\ Len(last.msg.players) = 2
    /\ DOMAIN players = Users
    /\ username \in Users
    /\ my_player = Some(players[username])
    /\ positionDisplay = None

(* C11: in lobby mode the open signal sends nothing; a join frame goes out *)
(* on a lobby channel only in a join_battle call, which then carries the   *)
(* session's username and room; and join_battle called while the           *)
(* connection is not Open returns the error "Not connected to server",     *)
(* sends nothing and calls nothing.                                        *)
C11_LobbyOpenSilent ==
    (last.op = "onopen" /\ chans[last.ch].mode = "lobby") => out = <<>>

C11_JoinOnlyExplicit ==
    \A i \in DOMAIN out :
        (out[i].frame.type = "join" /\ chans[out[i].ch].mode = "lobby")
        => /\ last.op = "join_battle"
           /\ last.ret = "Ok"
           /\ out = <<[ch |-> websocket,
                       frame |-> [type |-> "join", username |-> username, room |-> room]]>>

C11_JoinBattleNotOpen ==
    (last'.op = "join_battle" /\ ~ConnectionOpen)
    => /\ last'.ret = "Err"
       /\ last'.err = "Not connected to server"
       /\ out' = <<>>
       /\ calls' = <<>>

C11_LobbyJoinDeferred ==
    /\ []C11_LobbyOpenSilent
    /\ []C11_JoinOnlyExplicit
    /\ [][C11_JoinBattleNotOpen]_vars

\* an explicit join on an open lobby channel
C11_Witness ==
    /\ last.op = "join_battle"
    /\ last.ret = "Ok"
    /\ chans[websocket].mode = "lobby"
    /\ Len(out) = 1
    /\ out[1].frame.type = "join"

(* C12: connect (or connect_to_server) called while the session's channel  *)
(* is Connecting or Open returns an error, and neither creates a channel   *)
(* nor replaces the one the session holds.                                 *)
C12_ConnectStep ==
    (/\ last'.op \in {"connect", "connect_to_server"}
     /\ websocket # 0
     /\ chans[websocket].ready \in {"CONNECTING", "OPEN"})
    => /\ last'.ret = "Err"
       /\ chans' = chans
       /\ websocket' = websocket

C12_DoubleConnectRejected == [][C12_ConnectStep]_vars

(* C14: a frame that does not decode is dropped.  Its delivery changes     *)
(* neither the table, the self reference, the pending index nor any        *)
(* channel, shows nothing in the chat panel or the position display and    *)
(* calls no page function; and a well-formed frame delivered right after   *)
(* it has its usual effect (a player_joined enters the table, an error is  *)
(* shown), in auto-join and in lobby mode.                                 *)
C14_Dropped ==
    (last'.op = "onmessage" /\ last'.msg \in MalformedFrames)
    => /\ players' = players
       /\ my_player' = my_player
       /\ pending_messages' = pending_messages
       /\ chans' = chans
       /\ websocket' = websocket
       /\ chatMessages' = chatMessages
       /\ positionDisplay' = positionDisplay
       /\ nextElem' = nextElem
       /\ calls' = <<>>
       /\ out' = <<>>

C14_NextDispatched ==
    (/\ last.op = "onmessage"
     /\ last.msg \in MalformedFrames
     /\ last'.op = "onmessage"
     /\ last'.msg \notin MalformedFrames)
    => /\ (last'.msg.type = "player_joined" /\ chans[last'.ch].mode = "auto")
          => /\ last'.msg.username \in DOMAIN players'
             /\ players'[last'.msg.username].x = last'.msg.x
             /\ players'[last'.msg.username].y = last'.msg.y
       /\ last'.msg.type = "error"
          => chatMessages' = Append(chatMessages,
                                    [kind |-> "line", text |-> <<"Error", last'.msg.message>>])

C14_MalformedDropped == [][C14_Dropped]_vars /\ [][C14_NextDispatched]_vars

\* a frame with a known tag and a missing field has just been dropped while
\* the table and the pending index were not empty
C14_Witness ==
    /\ last.op = "onmessage"
    /\ last.msg = [type |-> "player_joined", username |-> "bob"]
    /\ DOMAIN players # {}
    /\ "bob" \notin DOMAIN players
    /\ DOMAIN pending_messages # {}
    /\ calls = <<>>

(* C15: an inbound chat_message that is not a probe echo (not both from    *)
(* the local username and with a sentinel text) shows exactly one chat     *)
(* line, as the last child of the panel.  When the lowercase(trim(.)) of   *)
(* its text is a pending key, that entry leaves the index, every other     *)
(* entry stays, and the entry's placeholder leaves the panel, so the line  *)
(* takes its place; when it is not, the index and the rest of the panel    *)
(* are left as they were.                                                  *)
C15_ChatStep ==
    (/\ last'.op = "onmessage"
     /\ last'.msg.type = "chat_message"
     /\ ~(/\ last'.msg.username = username
          /\ last'.msg.message \in {<<"p">>, <<"_", "_", "p", "i", "n", "g", "_", "_">>}))
    => LET key == ClaimedKey(last'.msg.message)
           line == [kind |-> "line",
                    text |-> <<"chat", last'.msg.username, last'.msg.message>>]
       IN IF key \in DOMAIN pending_messages
          THEN /\ DOMAIN pending_messages' = DOMAIN pending_messages \ {key}
               /\ \A k \in DOMAIN pending_messages' :
                      pending_messages'[k] = pending_messages[k]
               /\ chatMessages' =
                      Append(SelectSeq(chatMessages, LAMBDA e : e # pending_messages[key]),
                             line)
          ELSE /\ pending_messages' = pending_messages
               /\ chatMessages' = Append(chatMessages, line)

C15_OneAuthoritativeLine == [][C15_ChatStep]_vars

\* the exact echo of a pending text has replaced its placeholder: the panel
\* holds the authoritative line alone
C15_Witness ==
    /\ Dispatched("chat_message")
    /\ last.msg.username = username
    /\ calls = <<<<"removeChild", [kind |-> "pending", id |-> 1,
                                   text |-> <<"SENDING", "alice", last.msg.message>>]>>>>
    /\ chatMessages = <<[kind |-> "line",
                         text |-> <<"chat", last.msg.username, last.msg.message>>]>>
    /\ DOMAIN pending_messages = {}

(* C16: a chat text sent while its lowercase(trim(.)) key is already       *)
(* pending is still sent, and its new placeholder takes the older one's    *)
(* place in the index.  So the index never holds two entries whose keys    *)
(* normalize alike, the entry of a key is the newest placeholder shown for *)
(* that key, and an echo that retires the key removes that newest one.     *)
C16_CollidingSend ==
    (/\ last'.op = "send_message"
     /\ ConnectionOpen
     /\ last'.message \notin {<<"p">>, <<"_", "_", "p", "i", "n", "g", "_", "_">>}
     /\ ClaimedKey(last'.message) \in DOMAIN pending_messages)
    => LET key == ClaimedKey(last'.message)
           newer == [kind |-> "pending", id |-> nextElem + 1,
                     text |-> <<"SENDING", UserDisplayText, last'.message>>]
       IN /\ out' = <<[ch |-> websocket,
                       frame |-> [type |-> "message", username |-> username,
                                  message |-> last'.message, room |-> room]]>>
          /\ DOMAIN pending_messages' = DOMAIN pending_messages
          /\ pending_messages'[key] = newer
          /\ pending_messages[key] # newer
          /\ \A k \in DOMAIN pending_messages : k # key =>
                 pending_messages'[k] = pending_messages[k]
          /\ chatMessages' = Append(chatMessages, newer)

C16_OnePerKey ==
    /\ \A k1 \in DOMAIN pending_messages, k2 \in DOMAIN pending_messages :
           ClaimedKey(k1) = ClaimedKey(k2) => k1 = k2
    /\ \A k \in DOMAIN pending_messages, i \in DOMAIN chatMessages :
           (/\ chatMessages[i].kind = "pending"
            /\ ClaimedKey(chatMessages[i].text[3]) = k)
           => chatMessages[i].id <= pending_messages[k].id

C16_RetireNewest ==
    (/\ last'.op = "onmessage"
     /\ last'.msg.type = "chat_message"
     /\ calls' # <<>>
     /\ calls'[1][1] = "removeChild")
    => \A i \in DOMAIN chatMessages :
           (/\ chatMessages[i].kind = "pending"
            /\ ClaimedKey(chatMessages[i].text[3]) = ClaimedKey(last'.msg.message))
           => chatMessages[i].id <= calls'[1][2].id

C16_NewerOverwrites ==
    /\ [][C16_CollidingSend]_vars
    /\ []C16_OnePerKey
    /\ [][C16_RetireNewest]_vars

\* two placeholders of one key are shown, the index holds the second
C16_Witness ==
    /\ last.op = "send_message"
    /\ Len(chatMessages) = 2
    /\ chatMessages[1].kind = "pending"
    /\ chatMessages[2].kind = "pending"
    /\ chatMessages[1].text # chatMessages[2].text
    /\ DOMAIN pending_messages = {<<"h", "i">>}
    /\ pending_messages[<<"h", "i">>] = chatMessages[2]
    /\ Len(out) = 1

(* C17: send_ping puts its probe frame on the channel exactly when the     *)
(* connection is Open.  Called in any other state it returns Ok, sends     *)
(* nothing, calls nothing and leaves the session, the table, the index and *)
(* the page as they were; so does a sentinel text passed to send_message,  *)
(* which shows no "Not connected" line.                                    *)
C17_PingStep ==
    last'.op = "send_ping"
    => /\ last'.ret = "Ok"
       /\ calls' = <<>>
       /\ <<username', room', websocket', chans'>> = <<username, room, websocket, chans>>
       /\ <<players', my_player', pending_messages'>> = <<players, my_player, pending_messages>>
       /\ <<chatMessages', positionDisplay', nextElem'>> = <<chatMessages, positionDisplay, nextElem>>
       /\ out' = IF ConnectionOpen
                 THEN <<[ch |-> websocket,
                         frame |-> [type |-> "message", username |-> username,
                                    message |-> <<"p">>, room |-> room]]>>
                 ELSE <<>>

C17_SentinelStep ==
    (/\ last'.op = "send_message"
     /\ last'.message \in {<<"p">>, <<"_", "_", "p", "i", "n", "g", "_", "_">>}
     /\ ~ConnectionOpen)
    => /\ last'.ret = "Ok"
       /\ out' = <<>>
       /\ calls' = <<>>
       /\ <<chatMessages', pending_messages', nextElem'>> = <<chatMessages, pending_messages, nextElem>>

C17_ProbeOnlyWhileOpen == [][C17_PingStep]_vars /\ [][C17_SentinelStep]_vars

\* a probe attempted on a channel that has closed, a chat line being shown
C17_Witness ==
    /\ last.op = "send_ping"
    /\ websocket # 0
    /\ chans[websocket].ready = "CLOSED"
    /\ out = <<>>
    /\ Len(chatMessages) = 1

(* C18: at most one probe frame is on the wire at any time: none is sent   *)
(* while an earlier one has not been echoed.                               *)
C18_OneProbeInFlight == Len(hb.inflight) <= 1

(* C19: an error or close signal only notifies the user: it adds one line  *)
(* to the chat panel, creates no channel, leaves the session's channel     *)
(* reference and every other channel alone, sends nothing and calls        *)
(* nothing.  A channel is created only by connect or connect_to_server,    *)
(* and while every channel has failed or closed no frame is sent.          *)
C19_SignalStep ==
    last'.op \in {"onerror", "onclose"}
    => /\ Len(chans') = Len(chans)
       /\ websocket' = websocket
       /\ \A c \in DOMAIN chans : c # last'.ch => chans'[c] = chans[c]
       /\ chans'[last'.ch].ready \in {"FAILED", "CLOSED"}
       /\ out' = <<>>
       /\ calls' = <<>>
       /\ chatMessages' =
              Append(chatMessages,
                     [kind |-> "line",
                      text |-> IF last'.op = "onerror"
                               THEN <<"Connection error - please refresh to reconnect">>
                               ELSE <<"Connection lost. Please refresh to reconnect.">>])

C19_ChannelOnlyByConnect ==
    chans' # chans /\ Len(chans') # Len(chans)
    => /\ last'.op \in {"connect", "connect_to_server"}
       /\ Len(chans') = Len(chans) + 1

C19_SilentWhileDown ==
    (\A c \in DOMAIN chans : chans[c].ready \in {"FAILED", "CLOSED"}) => out = <<>>

C19_NoAutoReconnect ==
    /\ [][C19_SignalStep]_vars
    /\ [][C19_ChannelOnlyByConnect]_vars
    /\ []C19_SilentWhileDown

\* the first channel has closed, a second one was created by an explicit
\* connect and has now failed
C19_Witness ==
    /\ last.op = "onerror"
    /\ last.ch = 2
    /\ websocket = 2
    /\ chans[1].ready = "CLOSED"
    /\ chans[2].ready = "FAILED"
    /\ Len(chatMessages) = 2

(* C20: an inbound error frame adds the line "Error: <message>" to the     *)
(* chat panel, in auto-join and in lobby mode alike, and nothing else: no  *)
(* channel changes state, the session keeps its channel, and the table,    *)
(* the self reference and the pending index are left as they were.         *)
C20_ErrorStep ==
    (/\ last'.op = "onmessage"
     /\ last'.msg \notin MalformedFrames
     /\ last'.msg.type = "error")
    => /\ chatMessages' =
              Append(chatMessages,
                     [kind |-> "line", text |-> <<"Error", last'.msg.message>>])
       /\ chans' = chans
       /\ websocket' = websocket
       /\ players' = players
       /\ my_player' = my_player
       /\ pending_messages' = pending_messages
       /\ calls' = <<>>
       /\ out' = <<>>

C20_ErrorSurfaced == [][C20_ErrorStep]_vars

\* an error frame is shown while the table and the pending index hold entries
C20_Witness ==
    /\ last.op = "onmessage"
    /\ last.msg = [type |-> "error", message |-> <<"a">>]
    /\ DOMAIN players # {}
    /\ DOMAIN pending_messages # {}
    /\ chatMessages[Len(chatMessages)] = [kind |-> "line", text |-> <<"Error", <<"a">>>>]
    /\ chans[last.ch].ready = "OPEN"

(* C21: the self reference mirrors the table: it is set exactly when the   *)
(* table has an entry for the local username, and it is then that entry.   *)
C21_SelfMirrorsTable ==
    /\ (my_player # <<>>) <=> (username \in DOMAIN players)
    /\ (my_player # <<>>) => my_player = <<players[username]>>

(* C22: every frame sent on a channel carries the username and the room    *)
(* that were set when the channel's connect was called, and a sentinel     *)
(* chat_message is taken for a probe echo exactly when its username is     *)
(* that same username.                                                     *)
C22_IdentityFixedAtConnect ==
    /\ \A i \in DOMAIN out :
           /\ out[i].frame.username = chans[out[i].ch].username
           /\ out[i].frame.room = chans[out[i].ch].room
    /\ (/\ last.op = "onmessage"
        /\ last.msg.type = "chat_message"
        /\ last.msg.message = <<"p">>)
       => ((calls = <<<<"onPingReceived", "">>>>)
           <=> (last.msg.username = chans[last.ch].username))

(* C23: an inbound chat_message goes to the heartbeat monitor, and is not   *)
(* displayed, exactly when its username is the local identity and its text, *)
(* lower-cased and trimmed, is the sentinel probe body.                    *)
C23_NormalizedProbeRouting ==
    Dispatched("chat_message") =>
        LET isProbe == /\ last.msg.username = chans[last.ch].username
                       /\ IsPingText(ClaimedKey(last.msg.message))
        IN (calls = <<<<"onPingReceived", "">>>>) <=> isProbe

(* C24: after a successful join_battle on a channel opened in lobby mode,  *)
(* the game events that arrive on it are applied to the player table: a    *)
(* game_state replaces the table with its snapshot, and player_joined and  *)
(* player_update insert or overwrite their player.                         *)
C24_JoinedStep ==
    (/\ last.op = "join_battle"
     /\ last.ret = "Ok"
     /\ chans[websocket].mode = "lobby"
     /\ last'.op = "onmessage"
     /\ last'.ch = websocket)
    => /\ last'.msg.type = "game_state"
          => DOMAIN players' = UsernamesOf(last'.msg.players)
       /\ last'.msg.type \in {"player_joined", "player_update"}
          => /\ last'.msg.username \in DOMAIN players'
             /\ players'[last'.msg.username].x = last'.msg.x
             /\ players'[last'.msg.username].y = last'.msg.y

C24_LobbyJoinAppliesEvents == [][C24_JoinedStep]_vars

(* C25: an inbound player_joined(u, x, y) stores u at (x, y) with health   *)
(* 100 and resources 0, whatever record the table held for u (the last     *)
(* message wins: health and resources set by an earlier player_update are  *)
(* reset); the other entries are kept, and the self reference follows when *)
(* u is the local username.                                                *)
C25_JoinedStep ==
    (/\ last'.op = "onmessage"
     /\ last'.msg.type = "player_joined"
     /\ chans[last'.ch].mode = "auto")
    => LET u == last'.msg.username
           joined == Player(u, last'.msg.x, last'.msg.y, room, 100, 0)
       IN /\ players' = HashMapInsert(players, u, joined)
          /\ my_player' = IF u = username THEN Some(joined) ELSE my_player

C25_PlayerJoinedOverwrites == [][C25_JoinedStep]_vars

\* player_joined for alice at (0, 0) while the position display still shows
\* (1, 2), which only an earlier update for alice can have written (the
\* local user is bob): the stored record is replaced by the default one
C25_Witness ==
    /\ DispatchedAuto("player_joined")
    /\ last.msg.username = "alice"
    /\ username = "bob"
    /\ positionDisplay = Some(<<1, 2>>)
    /\ players["alice"] = Player("alice", 0, 0, room, 100, 0)
    /\ IsSome(my_player)

(* C26: a pending entry is registered only for a chat frame the channel    *)
(* accepted.  When the send of a chat text that is not a sentinel fails    *)
(* while the connection is Open, no pending entry is registered and the    *)
(* line "Failed to send message - connection lost" is shown; the sentinel  *)
(* texts "p" and "__ping__" never register an entry and never show a line. *)
C26_SendStep ==
    last'.op = "send_message" =>
        LET t == last'.message
            sentinel == t = <<"p">> \/ t = <<"_", "_", "p", "i", "n", "g", "_", "_">>
            sent == /\ Len(out') = 1
                    /\ out'[1].frame = MessageFrame(username, t, room)
        IN /\ pending_messages' # pending_messages => sent
           /\ (last'.connected /\ ~sent /\ ~sentinel)
              => /\ pending_messages' = pending_messages
                 /\ chatMessages' =
                       Append(chatMessages,
                              ChatLine(<<"Failed to send message - connection lost">>))
           /\ sentinel
              => /\ pending_messages' = pending_messages
                 /\ chatMessages' = chatMessages

C26_PendingOnlyWhenAccepted == [][C26_SendStep]_vars

\* the channel is open and rejects the send of "hi": the failure line is
\* shown and nothing is pending
C26_Witness ==
    /\ last.op = "send_message"
    /\ last.connected
    /\ last.message = <<"h", "i">>
    /\ out = <<>>
    /\ chatMessages = <<ChatLine(<<"Failed to send message - connection lost">>)>>
    /\ DOMAIN pending_messages = {}

(* C27: a chat_message from a username other than the local one never      *)
(* removes an entry from the pending index, also when its normalized text  *)
(* is a pending key.                                                       *)
C27_OtherSenderStep ==
    (/\ last'.op = "onmessage"
     /\ last'.msg.type = "chat_message"
     /\ last'.msg.username # chans[last'.ch].username)
    => pending_messages' = pending_messages

C27_OnlyOwnEchoRetires == [][C27_OtherSenderStep]_vars

(* C28: under a server that echoes every chat message the local user      *)
(* sent, once every echo has arrived no provisional placeholder is         *)
(* displayed and the pending index is empty, also when two texts of the    *)
(* same normalized key were sent while the first was still pending.        *)
C28_AllEchoedAllRetired ==
    (/\ ConnectionOpen
     /\ hb.inflight = <<>>)
    => /\ \A i \in DOMAIN chatMessages : chatMessages[i].kind # "pending"
       /\ DOMAIN pending_messages = {}

(* C29: once connect has been called again, the earlier channel is dead to *)
(* the session: a frame, an open, a close or an error arriving on a        *)
(* channel other than the current one changes neither the player table,    *)
(* the self reference nor the pending index, and sends no frame.           *)
C29_EarlierChannelStep ==
    (/\ last'.op \in {"onmessage", "onopen", "onclose", "onerror"}
     /\ last'.ch # websocket)
    => /\ players' = players
       /\ my_player' = my_player
       /\ pending_messages' = pending_messages
       /\ out' = <<>>

C29_OneLiveChannel == [][C29_EarlierChannelStep]_vars

=============================================================================
